---- MODULE Spec2Model ----
(***************************************************************************)
(* A model of the reverse-mode AD engine of src/src/core.rs (Graph, Node,  *)
(* Expr, parse_expr) and of the two clients of src/src/util.rs.            *)
(*                                                                         *)
(* Tape indices are the 0-based usize indices of the source; the three     *)
(* parallel vectors are TLA+ sequences read through At (index + 1).        *)
(* f64 values are modelled as exact rationals <<n, d>> (d > 0, lowest      *)
(* terms), the "real-number scalar arithmetic" the operators stand for.    *)
(* Option<T> is <<>> (None) or <<t>> (Some(t)).                            *)
(* Node kinds whose value is not a rational function (Pow, Powf, Powi,     *)
(* Exp, Ln, Sin, Cos, Tan, Sinh, Cosh, Tanh) are not part of the model.    *)
(***************************************************************************)
EXTENDS Integers, Sequences, FiniteSets, Bags, TLC

\* ------------------------------------------------------------------ bounds
\* The longest tape the model builds.
MaxNodes == 3
\* The most backward() calls between two reset() calls (gradients only grow).
MaxBackward == 1
\* The most variables touch_vars declares in one call.
MaxTouch == 2
\* The longest tape compile builds from a held Expr tree (SpecCompile).
MaxTape == 4
\* The most consecutive backward() calls with no reset() between (SpecBackward).
MaxRepeat == 3

\* ------------------------------------------------------- rational numbers
Abs(i) == IF i < 0 THEN -i ELSE i

RECURSIVE GCD(_, _)
GCD(a, b) == IF b = 0 THEN a ELSE GCD(b, a % b)

\* <<n, d>> in lowest terms with a positive denominator (d # 0).
RNorm(n, d) ==
    LET g == GCD(Abs(n), Abs(d))
        s == IF d < 0 THEN -1 ELSE 1
    IN  <<(s * n) \div g, (s * d) \div g>>

Rat(i) == <<i, 1>>
RAdd(x, y) == RNorm(x[1] * y[2] + y[1] * x[2], x[2] * y[2])
RSub(x, y) == RNorm(x[1] * y[2] - y[1] * x[2], x[2] * y[2])
RMul(x, y) == RNorm(x[1] * y[1], x[2] * y[2])
RNeg(x) == <<-x[1], x[2]>>
\* Only used with y # 0: a division by zero is caught before (see Defined).
RDiv(x, y) == RNorm(x[1] * y[2], x[2] * y[1])
IsZero(x) == x[1] = 0

\* ----------------------------------------------------------------- inputs
\* The f64 values a caller binds to variables, and the f64 literals it uses.
Vals == {Rat(2), Rat(3)}
Consts == {Rat(2)}

None == <<>>
Some(v) == <<v>>

\* ------------------------------------------------------------------ nodes
\* enum Node: a is the first (or only) tape operand, b the second, c the
\* literal. Var(index) keeps its index in a.
BinaryOps == {"Add", "Sub", "Mul", "Div"}
UnaryOps == {"Neg", "Recip"}
ConstLeftOps == {"Addf", "Mulf"}
ConstRightOps == {"Subf"}

NodeVar(index) == [op |-> "Var", a |-> index, b |-> 0, c |-> Rat(0)]
NodeUnary(name, operand) == [op |-> name, a |-> operand, b |-> 0, c |-> Rat(0)]
NodeBinary(name, left, right) == [op |-> name, a |-> left, b |-> right, c |-> Rat(0)]
NodeConst(name, num, operand) == [op |-> name, a |-> operand, b |-> 0, c |-> num]

\* The tape operands a node reads.
Operands(nd) ==
    CASE nd.op = "Var" -> {}
      [] nd.op \in BinaryOps -> {nd.a, nd.b}
      [] OTHER -> {nd.a}

\* ------------------------------------------------------------------ state
VARIABLES
    nodes,      \* Graph.nodes: Seq of Node
    buffer,     \* Graph.buffer: Seq of Option<f64>
    gradients,  \* Graph.gradients: Seq of f64
    value_ics,  \* Graph.value_ics: tape indices of the variables, in declaration order
    compiled,   \* Graph.compiled: Option<usize>
    expr,       \* the Expr the caller holds: Option<Expr>
    call,       \* the name of the last call made ("" before the first)
    ret,        \* what the last call returned: Option<f64>, or Option<(f64, Vec<f64>)>
    nbwd,       \* backward() calls since the last reset()
    evals,      \* the tape indices whose value forward_step has computed from
                \* the operator since the last reset(), a bag: one copy per time
    panicked    \* "" or the panic that ended the program

vars == <<nodes, buffer, gradients, value_ics, compiled, expr, call, ret, nbwd, evals,
          panicked>>

At(s, i) == s[i + 1]
Put(s, i, v) == [s EXCEPT ![i + 1] = v]
Indices(s) == 0 .. Len(s) - 1
Range(s) == {s[k] : k \in 1 .. Len(s)}

\* The record of the Graph fields, for the pure operators below.
Graph == [nodes |-> nodes, buffer |-> buffer, gradients |-> gradients,
          value_ics |-> value_ics, compiled |-> compiled, evals |-> evals]

GraphDefault == [nodes |-> <<>>, buffer |-> <<>>, gradients |-> <<>>,
                 value_ics |-> <<>>, compiled |-> None, evals |-> EmptyBag]

Init ==
    /\ nodes = <<>>
    /\ buffer = <<>>
    /\ gradients = <<>>
    /\ value_ics = <<>>
    /\ compiled = None
    /\ expr = None
    /\ call = ""
    /\ ret = None
    /\ nbwd = 0
    /\ evals = EmptyBag
    /\ panicked = ""

\* ------------------------------------------------- pure Graph operations
\* Graph::var
var(g, value) ==
    LET index == Len(g.buffer)
    IN  [g EXCEPT !.buffer = Append(@, Some(value)),
                  !.gradients = Append(@, Rat(0)),
                  !.nodes = Append(@, NodeVar(index)),
                  !.value_ics = Append(@, index)]

\* The body shared by impl_unary_op!, impl_binary_op!, addf, subf and mulf:
\* push None, push 0.0, push the node; the new index is the old nodes.len().
push_node(g, nd) ==
    [g EXCEPT !.buffer = Append(@, None),
              !.gradients = Append(@, Rat(0)),
              !.nodes = Append(@, nd)]

\* Mutant of impl_unary_op: the node reads the new index, not its operand.
impl_unary_op_self(g, name, operand) == push_node(g, NodeUnary(name, Len(g.nodes)))

\* impl_unary_op!(neg), impl_unary_op!(recip)
impl_unary_op(g, name, operand) == push_node(g, NodeUnary(name, operand))

\* impl_binary_op!(add), (sub), (mul), (div)
impl_binary_op(g, name, left, right) == push_node(g, NodeBinary(name, left, right))

\* Graph::addf, Graph::mulf (literal on the left), Graph::subf (on the right)
addf(g, num, right) == push_node(g, NodeConst("Addf", num, right))
subf(g, left, num) == push_node(g, NodeConst("Subf", num, left))
mulf(g, num, right) == push_node(g, NodeConst("Mulf", num, right))

\* Graph::touch_vars: n_vars unbound variables at start_index ..
RECURSIVE touch_loop(_, _, _, _)
touch_loop(g, start_index, i, n_vars) ==
    IF i >= n_vars THEN g
    ELSE touch_loop([g EXCEPT !.nodes = Append(@, NodeVar(start_index + i)),
                              !.value_ics = Append(@, start_index + i)],
                    start_index, i + 1, n_vars)

\* Mutant of touch_vars: the Var nodes count from 0, not from start_index.
touch_vars_relative(g, n_vars) ==
    [g EXCEPT
        !.buffer = @ \o [k \in 1 .. n_vars |-> None],
        !.gradients = @ \o [k \in 1 .. n_vars |-> Rat(0)],
        !.nodes = @ \o [k \in 1 .. n_vars |-> NodeVar(k - 1)],
        !.value_ics = @ \o [k \in 1 .. n_vars |-> Len(g.buffer) + k - 1]]

touch_vars(g, n_vars) ==
    LET start_index == Len(g.buffer)
        resized == [g EXCEPT
            !.buffer = @ \o [k \in 1 .. n_vars |-> None],
            !.gradients = @ \o [k \in 1 .. n_vars |-> Rat(0)]]
    IN  touch_loop(resized, start_index, 0, n_vars)

\* Graph::get_var, Graph::get_vars
get_var(g, var_order) == At(g.value_ics, var_order)
get_vars(g) == g.value_ics

\* Graph::subs_var: no check that index is a variable's
subs_var(g, index, value) == [g EXCEPT !.buffer = Put(@, index, Some(value))]

\* Graph::subs_vars: the loop over value_ics.iter().zip(vals), which stops
\* at the shorter of the two.
RECURSIVE subs_loop(_, _, _)
subs_loop(g, vals, j) ==
    IF j > Len(vals) \/ j > Len(g.value_ics) THEN g
    ELSE subs_loop([g EXCEPT !.buffer = Put(@, g.value_ics[j], Some(vals[j]))],
                   vals, j + 1)

\* Mutant of subs_vars: no assertion, the extra values are dropped.
subs_vars_truncating(g, vals) ==
    [g |-> subs_loop(g, vals, 1), val |-> Rat(0), st |-> "ok"]

\* Graph::subs_vars: assert!(value_ics.len() >= vals.len()), then the loop.
subs_vars(g, vals) ==
    IF Len(g.value_ics) >= Len(vals)
    THEN [g |-> subs_loop(g, vals, 1), val |-> Rat(0), st |-> "ok"]
    ELSE [g |-> g, val |-> Rat(0), st |-> "assertion failed"]

\* ------------------------------------------------------------ forward pass
\* The value of a binary, unary or literal operator (forward_step's match
\* arms). Defined is false where f64 leaves the finite numbers (x / 0).
Defined(nd, x, y) ==
    CASE nd.op = "Div" -> ~IsZero(y)
      [] nd.op = "Recip" -> ~IsZero(x)
      [] OTHER -> TRUE

Value(nd, x, y) ==
    CASE nd.op = "Add" -> RAdd(x, y)
      [] nd.op = "Sub" -> RSub(x, y)
      [] nd.op = "Addf" -> RAdd(nd.c, x)
      [] nd.op = "Subf" -> RSub(x, nd.c)
      [] nd.op = "Mul" -> RMul(x, y)
      [] nd.op = "Mulf" -> RMul(nd.c, x)
      [] nd.op = "Div" -> RDiv(x, y)
      [] nd.op = "Neg" -> RNeg(x)
      [] nd.op = "Recip" -> RDiv(Rat(1), x)

\* What a traversal returns: the Graph after it, the value, and st: "ok", a
\* panic ("unreachable": the Var arm of forward_step, an unbound variable;
\* "No compiled expression"; "assertion failed"), or "nonfinite" (a division
\* by zero, which the rational values of the model do not follow).
Ok(g, val) == [g |-> g, val |-> val, st |-> "ok"]
Stop(g, st) == [g |-> g, val |-> Rat(0), st |-> st]

\* self.buffer[index] = Some(result); result. The index joins evals: its
\* value has been computed from the operator once more.
forward_store(g, index, nd, x, y) ==
    IF Defined(nd, x, y)
    THEN Ok([g EXCEPT !.buffer = Put(@, index, Some(Value(nd, x, y))),
                      !.evals = @ (+) SetToBag({index})],
            Value(nd, x, y))
    ELSE Stop(g, "nonfinite")

\* Graph::forward_step: a known value is returned as it is; otherwise the
\* operands are evaluated left to right (forward_first, forward_second: what
\* follows the first and the second operand) and the result is stored. A
\* panic leaves what was stored before it.
RECURSIVE forward_step(_, _), forward_first(_, _, _), forward_second(_, _, _, _)

\* Mutant of forward_step: the known value of a derived node is not looked up.
forward_step_recompute(g, index) ==
    IF At(g.nodes, index).op = "Var"
    THEN IF At(g.buffer, index) # None THEN Ok(g, At(g.buffer, index)[1])
         ELSE Stop(g, "unreachable")
    ELSE forward_first(index, At(g.nodes, index), forward_step(g, At(g.nodes, index).a))

forward_step(g, index) ==
    IF At(g.buffer, index) # None THEN Ok(g, At(g.buffer, index)[1])
    ELSE IF At(g.nodes, index).op = "Var" THEN Stop(g, "unreachable")
    ELSE forward_first(index, At(g.nodes, index), forward_step(g, At(g.nodes, index).a))

forward_first(index, nd, L) ==
    IF L.st # "ok" THEN L
    ELSE IF nd.op \in BinaryOps
    THEN forward_second(index, nd, L.val, forward_step(L.g, nd.b))
    ELSE forward_store(L.g, index, nd, L.val, Rat(0))

forward_second(index, nd, x, R) ==
    IF R.st # "ok" THEN R ELSE forward_store(R.g, index, nd, x, R.val)

\* Mutant of reset: the derived values are kept.
reset_gradients_only(g) ==
    [g EXCEPT !.gradients = [k \in 1 .. Len(@) |-> Rat(0)]]

\* Mutant of reset: the second loop, over the variables' gradients, is missing.
reset_derived_only(g) ==
    [g EXCEPT
        !.buffer = [k \in 1 .. Len(@) |->
            IF (k - 1) \in Range(g.value_ics) THEN @[k] ELSE None],
        !.gradients = [k \in 1 .. Len(@) |->
            IF (k - 1) \in Range(g.value_ics) THEN @[k] ELSE Rat(0)]]

\* Graph::reset (evals starts again: the next cycle computes afresh)
reset(g) ==
    LET except_ics == Range(g.value_ics)
        reset_ics == {x \in Indices(g.buffer) : x \notin except_ics}
    IN  [g EXCEPT
            !.buffer = [k \in 1 .. Len(@) |-> IF (k - 1) \in reset_ics THEN None ELSE @[k]],
            !.gradients = [k \in 1 .. Len(@) |->
                IF (k - 1) \in reset_ics \/ (k - 1) \in except_ics THEN Rat(0) ELSE @[k]],
            !.evals = EmptyBag]

\* ----------------------------------------------------------- backward pass
\* The arms of backward_step that read operand values through forward_step.
ReadsValues(nd) == nd.op \in {"Mul", "Div", "Neg", "Recip"}

\* Whether the gradients an arm passes down are finite (x, y: operand values).
DownDefined(nd, x, y) ==
    CASE nd.op = "Div" -> ~IsZero(y)
      [] nd.op = "Recip" -> ~IsZero(x)
      [] OTHER -> TRUE

\* The gradient passed to the first (or only) operand.
DownLeft(nd, x, y, up) ==
    CASE nd.op \in {"Add", "Addf", "Sub", "Subf"} -> up
      [] nd.op = "Mul" -> RMul(y, up)
      [] nd.op = "Mulf" -> RMul(nd.c, up)
      [] nd.op = "Div" -> RDiv(up, y)
      [] nd.op = "Neg" -> RMul(RNeg(up), x)
      [] nd.op = "Recip" -> RDiv(RNeg(up), RMul(x, x))

\* The gradient passed to the second operand of a binary node.
DownRight(nd, x, y, up) ==
    CASE nd.op = "Add" -> up
      [] nd.op = "Sub" -> RNeg(up)
      [] nd.op = "Mul" -> RMul(x, up)
      [] nd.op = "Div" -> RDiv(RMul(RNeg(up), x), RMul(y, y))

\* Mutant of accumulate: the gradient is overwritten, not added to.
accumulate_overwrite(g, value_index, upstream_gradient) ==
    Ok([g EXCEPT !.gradients = Put(@, value_index, upstream_gradient)], Rat(0))

\* The Var arm: self.gradients[value_index] += upstream_gradient
accumulate(g, value_index, upstream_gradient) ==
    Ok([g EXCEPT !.gradients =
            Put(@, value_index, RAdd(At(@, value_index), upstream_gradient))],
       Rat(0))

\* Graph::backward_step. backward_values and backward_values2 follow the
\* reads of the first and second operand value, backward_down passes the
\* gradient to the first operand and backward_right to the second.
RECURSIVE backward_step(_, _, _), backward_values(_, _, _), backward_values2(_, _, _, _),
          backward_down(_, _, _, _, _), backward_right(_, _, _, _, _)
backward_step(g, index, upstream_gradient) ==
    IF At(g.nodes, index).op = "Var"
    THEN accumulate(g, At(g.nodes, index).a, upstream_gradient)
    ELSE IF ReadsValues(At(g.nodes, index))
    THEN backward_values(At(g.nodes, index), upstream_gradient,
                         forward_step(g, At(g.nodes, index).a))
    ELSE backward_down(g, At(g.nodes, index), Rat(0), Rat(0), upstream_gradient)

backward_values(nd, up, L) ==
    IF L.st # "ok" THEN L
    ELSE IF nd.op \in BinaryOps
    THEN backward_values2(nd, up, L.val, forward_step(L.g, nd.b))
    ELSE backward_down(L.g, nd, L.val, Rat(0), up)

backward_values2(nd, up, x, R) ==
    IF R.st # "ok" THEN R ELSE backward_down(R.g, nd, x, R.val, up)

backward_down(g, nd, x, y, up) ==
    IF ~DownDefined(nd, x, y) THEN Stop(g, "nonfinite")
    ELSE backward_right(nd, x, y, up, backward_step(g, nd.a, DownLeft(nd, x, y, up)))

backward_right(nd, x, y, up, B) ==
    IF B.st # "ok" \/ nd.op \notin BinaryOps THEN B
    ELSE backward_step(B.g, nd.b, DownRight(nd, x, y, up))

\* Mutant of get_gradients: the first slots of the tape, one per variable.
get_gradients_prefix(g) == [k \in 1 .. Len(g.value_ics) |-> At(g.gradients, k - 1)]

\* Graph::get_gradient, Graph::get_gradients
get_gradient(g, index) == At(g.gradients, index)
get_gradients(g) == [k \in 1 .. Len(get_vars(g)) |-> get_gradient(g, get_vars(g)[k])]

\* Graph::get_compiled
get_compiled(g) == g.compiled

\* Mutant of forward: an uncompiled tape evaluates to 0.0.
forward_default(g) ==
    IF g.compiled = None THEN Ok(g, Rat(0)) ELSE forward_step(g, g.compiled[1])

\* Graph::forward
forward(g) ==
    IF g.compiled = None THEN Stop(g, "No compiled expression")
    ELSE forward_step(g, g.compiled[1])

\* Mutant of backward: the gradients are zeroed before the pass.
backward_fresh(g) ==
    IF g.compiled = None THEN Stop(g, "No compiled expression")
    ELSE backward_step([g EXCEPT !.gradients = [k \in 1 .. Len(@) |-> Rat(0)]],
                       g.compiled[1], Rat(1))

\* Graph::backward
backward(g) ==
    IF g.compiled = None THEN Stop(g, "No compiled expression")
    ELSE backward_step(g, g.compiled[1], Rat(1))

\* --------------------------------------------------------------- enum Expr
\* Symbol(index), a unary or binary operator over boxed sub-trees, or a
\* literal with one sub-tree.
Symbol(index) == [op |-> "Symbol", i |-> index]
ExprUnary(name, e) == [op |-> name, e |-> e]
ExprBinary(name, left, right) == [op |-> name, l |-> left, r |-> right]
ExprConst(name, num, e) == [op |-> name, c |-> num, e |-> e]

\* impl Neg for Expr, impl Neg for &Expr (clone() copies the tree)
neg_Expr(e) == ExprUnary("Neg", e)
neg_RefExpr(e) == ExprUnary("Neg", e)

\* impl Add/Sub/Mul/Div for Expr and for &Expr
binary_Expr(name, lhs, rhs) == ExprBinary(name, lhs, rhs)
binary_RefExpr(name, lhs, rhs) == ExprBinary(name, lhs, rhs)

\* impl Add<Expr> for f64, Add<f64> for Expr, Add<&Expr> for f64, Add<f64> for &Expr
add_f64_Expr(c, rhs) == ExprConst("Addf", c, rhs)
add_Expr_f64(lhs, c) == ExprConst("Addf", c, lhs)
add_f64_RefExpr(c, rhs) == ExprConst("Addf", c, rhs)
add_RefExpr_f64(lhs, c) == ExprConst("Addf", c, lhs)

\* impl Sub<Expr> for f64, Sub<f64> for Expr, Sub<&Expr> for f64, Sub<f64> for &Expr
sub_f64_Expr(c, rhs) == ExprUnary("Neg", ExprConst("Subf", c, rhs))
sub_Expr_f64(lhs, c) == ExprConst("Subf", c, lhs)
sub_f64_RefExpr(c, rhs) == ExprConst("Subf", c, rhs)
sub_RefExpr_f64(lhs, c) == ExprConst("Subf", c, lhs)

\* impl Mul<Expr> for f64, Mul<f64> for Expr, Mul<&Expr> for f64, Mul<f64> for &Expr
mul_f64_Expr(c, rhs) == ExprConst("Mulf", c, rhs)
mul_Expr_f64(lhs, c) == ExprConst("Mulf", c, lhs)
mul_f64_RefExpr(c, rhs) == ExprConst("Mulf", c, rhs)
mul_RefExpr_f64(lhs, c) == ExprConst("Mulf", c, lhs)

\* impl Div<Expr> for f64, Div<f64> for Expr, Div<&Expr> for f64, Div<f64> for &Expr
\* (the literal of c / e is dropped; e / c is self.mul(rhs.recip()))
div_f64_Expr(c, rhs) == ExprUnary("Recip", rhs)
div_Expr_f64(lhs, c) == mul_Expr_f64(lhs, RDiv(Rat(1), c))
div_f64_RefExpr(c, rhs) == ExprUnary("Recip", rhs)
div_RefExpr_f64(lhs, c) == mul_RefExpr_f64(lhs, RDiv(Rat(1), c))

\* The literal-with-Expr overload table: the shape names the source
\* expression, form is "owned" (Expr) or "borrowed" (&Expr).
Shapes == {"c+e", "e+c", "c-e", "e-c", "c*e", "e*c", "c/e", "e/c"}
Forms == {"owned", "borrowed"}

LitOp(shape, form, c, e) ==
    LET own == form = "owned"
    IN  CASE shape = "c+e" -> IF own THEN add_f64_Expr(c, e) ELSE add_f64_RefExpr(c, e)
          [] shape = "e+c" -> IF own THEN add_Expr_f64(e, c) ELSE add_RefExpr_f64(e, c)
          [] shape = "c-e" -> IF own THEN sub_f64_Expr(c, e) ELSE sub_f64_RefExpr(c, e)
          [] shape = "e-c" -> IF own THEN sub_Expr_f64(e, c) ELSE sub_RefExpr_f64(e, c)
          [] shape = "c*e" -> IF own THEN mul_f64_Expr(c, e) ELSE mul_f64_RefExpr(c, e)
          [] shape = "e*c" -> IF own THEN mul_Expr_f64(e, c) ELSE mul_RefExpr_f64(e, c)
          [] shape = "c/e" -> IF own THEN div_f64_Expr(c, e) ELSE div_f64_RefExpr(c, e)
          [] shape = "e/c" -> IF own THEN div_Expr_f64(e, c) ELSE div_RefExpr_f64(e, c)

\* The non-Symbol nodes of an Expr tree: the tape entries its lowering appends.
RECURSIVE ExprSize(_)
ExprSize(e) ==
    CASE e.op = "Symbol" -> 0
      [] e.op \in BinaryOps -> 1 + ExprSize(e.l) + ExprSize(e.r)
      [] OTHER -> 1 + ExprSize(e.e)

\* The constructor call of a lowered node: [g, index], index the new entry.
Pushed(g, g2) == [g |-> g2, index |-> Len(g.nodes)]

lower_unary(e, X) ==
    CASE e.op \in UnaryOps -> Pushed(X.g, impl_unary_op(X.g, e.op, X.index))
      [] e.op = "Addf" -> Pushed(X.g, addf(X.g, e.c, X.index))
      [] e.op = "Subf" -> Pushed(X.g, subf(X.g, X.index, e.c))
      [] e.op = "Mulf" -> Pushed(X.g, mulf(X.g, e.c, X.index))

lower_binary(e, left_index, R) ==
    Pushed(R.g, impl_binary_op(R.g, e.op, left_index, R.index))

\* parse_expr: post-order lowering; the result is [g, index]. parse_right
\* lowers the right sub-tree after the left one.
RECURSIVE parse_expr(_, _), parse_right(_, _)

\* Mutant of parse_right: a right sub-tree equal to the left one is shared.
parse_right_shared(e, L) ==
    IF e.l = e.r THEN lower_binary(e, L.index, L)
    ELSE lower_binary(e, L.index, parse_expr(e.r, L.g))

parse_expr(e, graph) ==
    CASE e.op = "Symbol" -> [g |-> graph, index |-> e.i]
      [] e.op \in BinaryOps -> parse_right(e, parse_expr(e.l, graph))
      [] OTHER -> lower_unary(e, parse_expr(e.e, graph))

parse_right(e, L) == lower_binary(e, L.index, parse_expr(e.r, L.g))

\* Graph::compile
set_compiled(P) == [P.g EXCEPT !.compiled = Some(P.index)]
compile(g, e) == set_compiled(parse_expr(e, g))

\* ------------------------------------------------------------ src/util.rs
\* What the two clients return: [g, result, grads, st].
Outcome(g, result, grads, st) == [g |-> g, result |-> result, grads |-> grads, st |-> st]

\* let _ = graph.forward(); graph.backward()
backward_after(F) == IF F.st = "ok" THEN backward(F.g) ELSE F

\* gradient: a fresh Graph, one var per input, compile, forward, backward,
\* and get_gradient of each var (var_vec is the fresh graph's value_ics). The
\* closure f is given by the Expr e it returns over Symbol(0 .. n-1).
RECURSIVE var_all(_, _, _)
var_all(g, x, k) == IF k > Len(x) THEN g ELSE var_all(var(g, x[k]), x, k + 1)

gradient_collect(result, B) ==
    Outcome(B.g, result,
            [k \in 1 .. Len(get_vars(B.g)) |-> get_gradient(B.g, get_vars(B.g)[k])], B.st)

gradient_forwarded(F) == gradient_collect(F.val, backward_after(F))

\* graph.forward(); graph.backward(); the gradients of var_vec
gradient_run(graph) == gradient_forwarded(forward(graph))

gradient(e, x) == gradient_run(compile(var_all(GraphDefault, x, 1), e))

\* gradient_cached: reset, subs_vars, forward, backward, get_gradients.
cached_done(result, B) == Outcome(B.g, result, get_gradients(B.g), B.st)

cached_forwarded(F) ==
    IF F.st # "ok" THEN Outcome(F.g, Rat(0), <<>>, F.st)
    ELSE cached_done(F.val, backward(F.g))

cached_bound(S) ==
    IF S.st # "ok" THEN Outcome(S.g, Rat(0), <<>>, S.st)
    ELSE cached_forwarded(forward(S.g))

gradient_cached(g, x) == cached_bound(subs_vars(reset(g), x))

\* ---------------------------------------------------------------- actions
\* The inputs of the calls.
Seqs(S, n) == UNION {[1 .. k -> S] : k \in 0 .. n}
\* The slices passed to subs_vars and gradient_cached on a tape of n
\* variables: every one of at most n values, and one of n + 1.
Slices(n) == Seqs(Vals, n) \cup {[k \in 1 .. n + 1 |-> Rat(2)]}

\* The operators the calls on the tape below are drawn from (the constructors
\* of one macro have one body; Recip and Div are composed in NextExpr).
TapeUnaryOps == {"Neg"}
TapeBinaryOps == {"Mul"}
TapeConstOps == {"Addf"}
\* The value subs_var writes (any index: a variable declared with 3 is
\* rebound, a derived slot is overwritten).
SubsVals == {Rat(2)}

\* Every Expr of exactly k operator nodes over Symbol(0 .. n-1).
RECURSIVE ExprsOfSize(_, _)
ExprsOfSize(n, k) ==
    IF k = 0 THEN {Symbol(i) : i \in 0 .. n - 1}
    ELSE LET sub == ExprsOfSize(n, k - 1)
         IN  {ExprUnary(op, e) : op \in TapeUnaryOps, e \in sub}
             \cup {ExprConst(op, c, e) : op \in TapeConstOps, c \in Consts, e \in sub}
             \cup UNION {{ExprBinary(op, l, r) : op \in TapeBinaryOps,
                                                 l \in ExprsOfSize(n, j),
                                                 r \in ExprsOfSize(n, k - 1 - j)}
                         : j \in 0 .. k - 1}

\* The Graph fields after a call, with the call's name, result and panic. A
\* panic ends the program: no call follows it.
Becomes(g, name, result, panic) ==
    /\ panicked = ""
    /\ nodes' = g.nodes
    /\ buffer' = g.buffer
    /\ gradients' = g.gradients
    /\ value_ics' = g.value_ics
    /\ compiled' = g.compiled
    /\ evals' = g.evals
    /\ call' = name
    /\ ret' = result
    /\ panicked' = panic

Room(n) == Len(nodes) + n <= MaxNodes

Var(value) ==
    /\ Room(1)
    /\ Becomes(var(Graph, value), "var", None, "")
    /\ UNCHANGED <<expr, nbwd>>

TouchVars(n_vars) ==
    /\ Room(n_vars)
    /\ Becomes(touch_vars(Graph, n_vars), "touch_vars", None, "")
    /\ UNCHANGED <<expr, nbwd>>

\* neg, recip
UnaryOp(name, operand) ==
    /\ Room(1)
    /\ Becomes(impl_unary_op(Graph, name, operand), "unary_op", None, "")
    /\ UNCHANGED <<expr, nbwd>>

\* add, sub, mul, div
BinaryOp(name, left, right) ==
    /\ Room(1)
    /\ Becomes(impl_binary_op(Graph, name, left, right), "binary_op", None, "")
    /\ UNCHANGED <<expr, nbwd>>

Addf(num, right) ==
    /\ Room(1)
    /\ Becomes(addf(Graph, num, right), "addf", None, "")
    /\ UNCHANGED <<expr, nbwd>>

Subf(left, num) ==
    /\ Room(1)
    /\ Becomes(subf(Graph, left, num), "subf", None, "")
    /\ UNCHANGED <<expr, nbwd>>

Mulf(num, right) ==
    /\ Room(1)
    /\ Becomes(mulf(Graph, num, right), "mulf", None, "")
    /\ UNCHANGED <<expr, nbwd>>

SubsVar(index, value) ==
    /\ Becomes(subs_var(Graph, index, value), "subs_var", None, "")
    /\ UNCHANGED <<expr, nbwd>>

\* A panic is the traversal's st; a division by zero is outside the rational
\* values of the model and the call is not followed.
Panic(st) == IF st = "ok" THEN "" ELSE st

\* A call that returns () or panics, and one that returns its f64.
Returns(name, R) ==
    /\ R.st # "nonfinite"
    /\ Becomes(R.g, name, None, Panic(R.st))

ReturnsValue(name, R) ==
    /\ R.st # "nonfinite"
    /\ Becomes(R.g, name, IF R.st = "ok" THEN Some(R.val) ELSE None, Panic(R.st))

SubsVars(vals) ==
    /\ Returns("subs_vars", subs_vars(Graph, vals))
    /\ UNCHANGED <<expr, nbwd>>

Reset ==
    /\ Becomes(reset(Graph), "reset", None, "")
    /\ nbwd' = 0
    /\ UNCHANGED expr

Compile(e) ==
    /\ Room(ExprSize(e))
    /\ Becomes(compile(Graph, e), "compile", None, "")
    /\ UNCHANGED <<expr, nbwd>>

Forward ==
    /\ ReturnsValue("forward", forward(Graph))
    /\ UNCHANGED <<expr, nbwd>>

Backward ==
    /\ nbwd < MaxBackward
    /\ Returns("backward", backward(Graph))
    /\ nbwd' = nbwd + 1
    /\ UNCHANGED expr

\* let (result, grads) = gradient_cached(&mut g, x)
CachedReturns(C) ==
    /\ C.st # "nonfinite"
    /\ Becomes(C.g, "gradient_cached",
               IF C.st = "ok" THEN Some(<<C.result, C.grads>>) ELSE None, Panic(C.st))
    /\ nbwd' = IF C.st = "ok" THEN 1 ELSE 0

GradientCached(x) ==
    /\ CachedReturns(gradient_cached(Graph, x))
    /\ UNCHANGED expr

\* The tape: every call of Graph, with operand and Symbol indices that exist.
Next ==
    \/ \E v \in Vals : Var(v)
    \/ \E n \in 0 .. MaxTouch : TouchVars(n)
    \/ \E name \in TapeUnaryOps, i \in Indices(nodes) : UnaryOp(name, i)
    \/ \E name \in TapeBinaryOps, l \in Indices(nodes), r \in Indices(nodes) :
           BinaryOp(name, l, r)
    \/ \E c \in Consts, i \in Indices(nodes) : Addf(c, i)
    \/ \E i \in Indices(nodes), v \in SubsVals : SubsVar(i, v)
    \/ \E vals \in Slices(Len(value_ics)) : SubsVars(vals)
    \/ Reset
    \/ \E k \in 0 .. MaxNodes - Len(nodes) :
           \E e \in ExprsOfSize(Len(nodes), k) : Compile(e)
    \/ Forward
    \/ Backward
    \/ \E x \in Slices(Len(value_ics)) : GradientCached(x)

Spec == Init /\ [][Next]_vars

\* The build-once use of a polynomial tape: var, add, sub, mul, addf, subf and
\* mulf, then compile of a root, forward() and backward().
PolyBinaryOps == {"Add", "Sub", "Mul"}

NextPoly ==
    \/ compiled = None /\ \E v \in Vals : Var(v)
    \/ compiled = None /\ \E name \in PolyBinaryOps :
           \E l \in Indices(nodes), r \in Indices(nodes) : BinaryOp(name, l, r)
    \/ compiled = None /\ \E c \in Consts, i \in Indices(nodes) : Addf(c, i)
    \/ compiled = None /\ \E c \in Consts, i \in Indices(nodes) : Subf(i, c)
    \/ compiled = None /\ \E c \in Consts, i \in Indices(nodes) : Mulf(c, i)
    \/ compiled = None /\ \E i \in Indices(nodes) : Compile(Symbol(i))
    \/ call = "compile" /\ Forward
    \/ call = "forward" /\ Backward

SpecPoly == Init /\ [][NextPoly]_vars

\* The caller composing an Expr over the variables' Symbols with the operator
\* overloads, then compiling and evaluating it.
\* Graph::get_symbol
get_symbol(g, var_order) == Symbol(get_var(g, var_order))

Holds(e, name) ==
    /\ panicked = ""
    /\ Room(ExprSize(e))
    /\ expr' = Some(e)
    /\ call' = name
    /\ ret' = None
    /\ UNCHANGED <<nodes, buffer, gradients, value_ics, compiled, nbwd, evals, panicked>>

GetSymbol(var_order) == Holds(get_symbol(Graph, var_order), "get_symbol")

ComposeLit(shape, form, c) ==
    /\ expr # None
    /\ Holds(LitOp(shape, form, c, expr[1]), shape)

ComposeNeg(form) ==
    /\ expr # None
    /\ Holds(IF form = "owned" THEN neg_Expr(expr[1]) ELSE neg_RefExpr(expr[1]), "neg")

ComposeBinary(name, form, var_order) ==
    /\ expr # None
    /\ Holds(IF form = "owned"
             THEN binary_Expr(name, expr[1], get_symbol(Graph, var_order))
             ELSE binary_RefExpr(name, expr[1], get_symbol(Graph, var_order)),
             "binary")

\* graph.compile(expr) takes the Expr by value.
CompileHeld ==
    /\ expr # None
    /\ Room(ExprSize(expr[1]))
    /\ Becomes(compile(Graph, expr[1]), "compile", None, "")
    /\ expr' = None
    /\ UNCHANGED nbwd

NextExpr ==
    \/ \E v \in Vals : Var(v)
    \/ \E k \in 0 .. Len(value_ics) - 1 : GetSymbol(k)
    \/ \E shape \in Shapes, form \in Forms, c \in Consts : ComposeLit(shape, form, c)
    \/ \E form \in Forms : ComposeNeg(form)
    \/ \E name \in BinaryOps, form \in Forms, k \in 0 .. Len(value_ics) - 1 :
           ComposeBinary(name, form, k)
    \/ CompileHeld
    \/ Forward

SpecExpr == Init /\ [][NextExpr]_vars

\* The caller holding any Expr tree over the tape's indices and compiling it,
\* once or again, on a tape long enough for repeated sub-trees.
HoldTree(e) ==
    /\ panicked = ""
    /\ expr = None
    /\ Len(nodes) + ExprSize(e) <= MaxTape
    /\ expr' = Some(e)
    /\ call' = "expr"
    /\ ret' = None
    /\ UNCHANGED <<nodes, buffer, gradients, value_ics, compiled, nbwd, evals, panicked>>

CompileTree ==
    /\ expr # None
    /\ Becomes(compile(Graph, expr[1]), "compile", None, "")
    /\ expr' = None
    /\ UNCHANGED nbwd

NextCompile ==
    \/ expr = None /\ \E v \in Vals : Var(v)
    \/ \E k \in 0 .. MaxTape - Len(nodes) :
           \E e \in ExprsOfSize(Len(nodes), k) : HoldTree(e)
    \/ CompileTree
    \/ expr = None /\ Forward

SpecCompile == Init /\ [][NextCompile]_vars

\* A tape built and compiled once, then bound, evaluated and differentiated:
\* backward() any number of times in a row, with reset() the only call that
\* may follow a backward() other than another backward().
BackwardAgain ==
    /\ nbwd < MaxRepeat
    /\ Returns("backward", backward(Graph))
    /\ nbwd' = nbwd + 1
    /\ UNCHANGED expr

NextBackward ==
    \/ compiled = None /\ \E v \in Vals : Var(v)
    \/ compiled = None /\ \E name \in TapeUnaryOps, i \in Indices(nodes) : UnaryOp(name, i)
    \/ compiled = None /\ \E name \in TapeBinaryOps :
           \E l \in Indices(nodes), r \in Indices(nodes) : BinaryOp(name, l, r)
    \/ compiled = None /\ \E c \in Consts, i \in Indices(nodes) : Addf(c, i)
    \/ compiled = None /\ \E i \in Indices(nodes) : Compile(Symbol(i))
    \/ compiled # None /\ nbwd = 0 /\ \E i \in Range(value_ics), v \in Vals : SubsVar(i, v)
    \/ compiled # None /\ nbwd = 0 /\ Forward
    \/ compiled # None /\ BackwardAgain
    \/ compiled # None /\ Reset

SpecBackward == Init /\ [][NextBackward]_vars

\* ------------------------------------------------------- helper predicates
DerivedIndices == {i \in Indices(nodes) : i \notin Range(value_ics)}
\* The tape indices of the Var nodes, in tape (= declaration) order.
VarNodes(ns) == {i \in Indices(ns) : At(ns, i).op = "Var"}
RECURSIVE Ascending(_)
Ascending(S) ==
    IF S = {} THEN <<>>
    ELSE LET m == CHOOSE x \in S : \A y \in S : x <= y
         IN  <<m>> \o Ascending(S \ {m})

\* A tape built again from nothing: the same constructor calls in the same
\* order, the k-th variable declared with var(v[k][1]), or with touch_vars(1)
\* where v[k] is None; then the same root.
RECURSIVE Rebuild(_, _, _, _, _)
Rebuild(ns, v, k, nv, h) ==
    IF k > Len(ns) THEN h
    ELSE IF ns[k].op = "Var"
    THEN Rebuild(ns, v, k + 1, nv + 1,
                 IF v[nv + 1] = None THEN touch_vars(h, 1) ELSE var(h, v[nv + 1][1]))
    ELSE Rebuild(ns, v, k + 1, nv, push_node(h, ns[k]))

FreshTape(g, v) == [Rebuild(g.nodes, v, 1, 0, GraphDefault) EXCEPT !.compiled = g.compiled]

\* What gradient's forward() and backward() give on that tape.
FreshRun(g, v) == gradient_run(FreshTape(g, v))

\* The values now bound to the variables (None where unbound), in
\* declaration order.
BoundValues == [k \in 1 .. Len(value_ics) |-> At(buffer, value_ics[k])]

\* The value of the polynomial at tape index i, by direct evaluation from the
\* variables' values (no memo).
RECURSIVE PolyValue(_, _, _)
PolyValue(ns, buf, i) ==
    LET nd == At(ns, i)
    IN  CASE nd.op = "Var" -> At(buf, i)[1]
          [] nd.op = "Add" -> RAdd(PolyValue(ns, buf, nd.a), PolyValue(ns, buf, nd.b))
          [] nd.op = "Sub" -> RSub(PolyValue(ns, buf, nd.a), PolyValue(ns, buf, nd.b))
          [] nd.op = "Mul" -> RMul(PolyValue(ns, buf, nd.a), PolyValue(ns, buf, nd.b))
          [] nd.op = "Addf" -> RAdd(nd.c, PolyValue(ns, buf, nd.a))
          [] nd.op = "Subf" -> RSub(PolyValue(ns, buf, nd.a), nd.c)
          [] nd.op = "Mulf" -> RMul(nd.c, PolyValue(ns, buf, nd.a))

\* The partial derivative of that polynomial with respect to the variable at
\* tape index x, by the sum and product rules (tangent propagation).
RECURSIVE PolyDeriv(_, _, _, _)
PolyDeriv(ns, buf, i, x) ==
    LET nd == At(ns, i)
    IN  CASE nd.op = "Var" -> IF i = x THEN Rat(1) ELSE Rat(0)
          [] nd.op = "Add" -> RAdd(PolyDeriv(ns, buf, nd.a, x), PolyDeriv(ns, buf, nd.b, x))
          [] nd.op = "Sub" -> RSub(PolyDeriv(ns, buf, nd.a, x), PolyDeriv(ns, buf, nd.b, x))
          [] nd.op = "Mul" ->
                RAdd(RMul(PolyDeriv(ns, buf, nd.a, x), PolyValue(ns, buf, nd.b)),
                     RMul(PolyValue(ns, buf, nd.a), PolyDeriv(ns, buf, nd.b, x)))
          [] nd.op \in {"Addf", "Subf"} -> PolyDeriv(ns, buf, nd.a, x)
          [] nd.op = "Mulf" -> RMul(nd.c, PolyDeriv(ns, buf, nd.a, x))

\* The scalar arithmetic a literal-with-Expr shape stands for.
ScalarDefined(shape, c, x) ==
    CASE shape = "c/e" -> ~IsZero(x)
      [] shape = "e/c" -> ~IsZero(c)
      [] OTHER -> TRUE

Scalar(shape, c, x) ==
    CASE shape \in {"c+e", "e+c"} -> RAdd(c, x)
      [] shape = "c-e" -> RSub(c, x)
      [] shape = "e-c" -> RSub(x, c)
      [] shape \in {"c*e", "e*c"} -> RMul(c, x)
      [] shape = "c/e" -> RDiv(c, x)
      [] shape = "e/c" -> RDiv(x, c)

\* The forward value of e compiled onto the tape as it is: [val, st].
CompiledValue(e) == forward(compile(Graph, e))

\* ------------------------------------------------------------------ claims

\* C1: on a tape built with var, add, sub, mul, addf, subf and mulf, after
\* compile of a root, forward() returns the value of the root's polynomial and
\* backward() leaves in each variable's gradient slot the exact partial
\* derivative; Mul(x, x) gives x*x and 2*x, and Addf(2, Mul(x, x)) at x = 3
\* gives 11 and 6.
C1_PolynomialValueAndGradient ==
    /\ call \in {"forward", "backward"} => panicked = ""
    /\ call = "forward" => ret = Some(PolyValue(nodes, buffer, compiled[1]))
    /\ call = "backward" =>
          /\ At(buffer, compiled[1]) = Some(PolyValue(nodes, buffer, compiled[1]))
          /\ \A x \in VarNodes(nodes) :
                 At(gradients, x) = PolyDeriv(nodes, buffer, compiled[1], x)
    /\ (/\ call = "backward"
        /\ Len(nodes) >= 2
        /\ SubSeq(nodes, 1, 2) = <<NodeVar(0), NodeBinary("Mul", 0, 0)>>
        /\ compiled = Some(1)) =>
          /\ At(buffer, 1) = Some(RMul(At(buffer, 0)[1], At(buffer, 0)[1]))
          /\ At(gradients, 0) = RMul(Rat(2), At(buffer, 0)[1])
    /\ (/\ call = "backward"
        /\ nodes = <<NodeVar(0), NodeBinary("Mul", 0, 0), NodeConst("Addf", Rat(2), 1)>>
        /\ compiled = Some(2)
        /\ At(buffer, 0) = Some(Rat(3))) =>
          /\ At(buffer, 2) = Some(Rat(11))
          /\ At(gradients, 0) = Rat(6)

\* C1 witness: Addf(2, Mul(x, x)) at x = 3 after forward() and backward().
C1_Witness ==
    /\ call = "backward"
    /\ nodes = <<NodeVar(0), NodeBinary("Mul", 0, 0), NodeConst("Addf", Rat(2), 1)>>
    /\ compiled = Some(2)
    /\ At(buffer, 0) = Some(Rat(3))
    /\ At(buffer, 2) = Some(Rat(11))
    /\ At(gradients, 0) = Rat(6)

\* C3 (as claimed): each literal-with-Expr composition c + e, e + c, c - e,
\* e - c, c * e, e * c, c / e, e / c, owned or borrowed, builds a tree whose
\* compiled forward value is that scalar arithmetic on c and the value of e.
EvaluatesTo(shape, c, E, R) ==
    (E.st = "ok" /\ ScalarDefined(shape, c, E.val)) =>
        (R.st = "ok" /\ R.val = Scalar(shape, c, E.val))

C3_LiteralOpsEvaluate ==
    [][\A shape \in Shapes, form \in Forms, c \in Consts :
          ComposeLit(shape, form, c) =>
              EvaluatesTo(shape, c, CompiledValue(expr[1]), CompiledValue(expr'[1]))]_vars

\* C2: after any earlier calls, the cycle reset(); bindAll(v); forward();
\* backward() of gradient_cached returns the root value and the gradient
\* vector that forward() and backward() give on a freshly built tape of the
\* same nodes and root whose variables are bound to the same values, and the
\* tape holds them: nothing of an earlier cycle is left.
SameAsFresh(F) ==
    /\ F.st = "ok"
    /\ ret = Some(<<F.result, F.grads>>)
    /\ get_gradients(Graph) = F.grads
    /\ At(buffer, compiled[1]) = Some(F.result)

C2_CachedCycleEqualsFresh ==
    (call = "gradient_cached" /\ panicked = "") => SameAsFresh(FreshRun(Graph, BoundValues))

\* C2 witness: gradient_cached has returned on a tape of two variables, both
\* bound, the first to 3, with a derived root and a nonzero first gradient.
C2_Witness ==
    /\ call = "gradient_cached"
    /\ panicked = ""
    /\ compiled # None
    /\ compiled[1] \in DerivedIndices
    /\ Len(value_ics) = 2
    /\ At(buffer, value_ics[1]) = Some(Rat(3))
    /\ At(buffer, value_ics[2]) # None
    /\ ret[1][2][1] # Rat(0)

\* C4 (as claimed): a subs_var or subs_vars call leaves the value slot of
\* every non-variable tape index unchanged.
C4_BindWritesOnlyVariableSlots ==
    [][call' \in {"subs_var", "subs_vars"} =>
          \A i \in DerivedIndices : At(buffer', i) = At(buffer, i)]_vars

\* C5: subs_vars with more values than declared variables panics and changes
\* no value slot; with at most as many it binds the first Len(vals) variables
\* in declaration order and leaves every other slot as it was.
C5_BindAllAssertsOrBindsPrefix ==
    [][\A vals \in Slices(Len(value_ics)) :
          SubsVars(vals) =>
              IF Len(vals) > Len(value_ics)
              THEN panicked' = "assertion failed" /\ buffer' = buffer
              ELSE /\ panicked' = ""
                   /\ \A k \in 1 .. Len(value_ics) :
                          At(buffer', value_ics[k]) =
                              IF k <= Len(vals) THEN Some(vals[k])
                              ELSE At(buffer, value_ics[k])
                   /\ \A i \in DerivedIndices : At(buffer', i) = At(buffer, i)]_vars

\* C5 witness: the assertion of subs_vars has failed.
C5_Witness == call = "subs_vars" /\ panicked = "assertion failed" /\ Len(value_ics) >= 1

\* C6: forward() and backward() on a tape with no compiled root panic with
\* "No compiled expression", return nothing and leave every value and gradient
\* slot unchanged; with a compiled root neither panics with that message.
C6_NoCompiledExpression ==
    [][call' \in {"forward", "backward"} =>
          IF compiled = None
          THEN /\ panicked' = "No compiled expression"
               /\ ret' = None
               /\ buffer' = buffer
               /\ gradients' = gradients
          ELSE panicked' # "No compiled expression"]_vars

\* C6 witness: forward() has panicked on an uncompiled tape with nodes.
C6_Witness ==
    /\ call = "forward"
    /\ panicked = "No compiled expression"
    /\ Len(nodes) >= 2

\* C7: reset() sets every non-variable value slot to None and every gradient
\* slot to zero, and leaves nodes, value_ics, compiled and every variable's
\* value unchanged.
C7_ResetFrame ==
    [][call' = "reset" =>
          /\ \A i \in DerivedIndices : At(buffer', i) = None
          /\ \A i \in Indices(gradients) : At(gradients', i) = Rat(0)
          /\ Len(buffer') = Len(buffer) /\ Len(gradients') = Len(gradients)
          /\ nodes' = nodes /\ value_ics' = value_ics /\ compiled' = compiled
          /\ \A i \in Range(value_ics) : At(buffer', i) = At(buffer, i)]_vars

\* C7 witness: reset() has run on a compiled tape with a bound variable and a
\* derived node.
C7_Witness ==
    /\ call = "reset"
    /\ compiled # None
    /\ DerivedIndices # {}
    /\ \E i \in Range(value_ics) : At(buffer, i) # None

\* C8: with operand and Symbol indices that exist on the tape, every node
\* reads only tape indices strictly below its own.
C8_OperandsBelow ==
    \A i \in Indices(nodes) : \A j \in Operands(At(nodes, i)) : 0 <= j /\ j < i

\* C8 witness: a full tape whose last node, lowered by compile, reads a
\* derived node.
C8_Witness ==
    /\ Len(nodes) = MaxNodes
    /\ compiled = Some(MaxNodes - 1)
    /\ \E j \in Operands(At(nodes, MaxNodes - 1)) : At(nodes, j).op # "Var"

\* C9: buffer and gradients are as long as nodes, and every Var node stores
\* its own tape index.
C9_ParallelVectors ==
    /\ Len(buffer) = Len(nodes)
    /\ Len(gradients) = Len(nodes)
    /\ \A i \in Indices(nodes) : At(nodes, i).op = "Var" => At(nodes, i).a = i

\* C9 witness: variables declared by touch_vars after a derived node, on a
\* tape that has since run backward().
C9_Witness ==
    /\ call = "backward"
    /\ panicked = ""
    /\ Len(nodes) = MaxNodes
    /\ \E i \in Indices(nodes) :
          /\ At(nodes, i).op = "Var"
          /\ \E j \in 0 .. i - 1 : At(nodes, j).op # "Var"

\* C10: get_gradients() has one entry per declared variable (per Var node of
\* the tape), and its k-th entry is the gradient slot of the k-th Var node.
C10_GradientsByDeclaration ==
    LET decl == Ascending(VarNodes(nodes))
    IN  /\ Len(get_gradients(Graph)) = Len(decl)
        /\ \A k \in 1 .. Len(decl) : get_gradients(Graph)[k] = At(gradients, decl[k])

\* C10 witness: a variable declared after a derived node holds a gradient.
C10_Witness ==
    /\ Len(value_ics) = 2
    /\ At(nodes, 1).op # "Var"
    /\ get_gradients(Graph)[2] # Rat(0)

\* The operators of the non-Symbol nodes of an Expr tree, in post-order (left
\* sub-tree, right sub-tree, node), every occurrence counted.
RECURSIVE ExprOps(_)
ExprOps(e) ==
    CASE e.op = "Symbol" -> <<>>
      [] e.op \in BinaryOps -> ExprOps(e.l) \o ExprOps(e.r) \o <<e.op>>
      [] OTHER -> ExprOps(e.e) \o <<e.op>>

\* C11: compile(expr) appends one tape entry per non-Symbol node of the tree
\* (repeated sub-trees are lowered again) and none for a Symbol leaf, leaves
\* the entries that were there unchanged, and sets the compiled root to the
\* last appended index, or to the Symbol's index for a bare Symbol; a second
\* compile replaces the root and the tape never shrinks.
C11_CompileAppendsPerNode ==
    [][CompileTree =>
          /\ Len(nodes') = Len(nodes) + Len(ExprOps(expr[1]))
          /\ [k \in 1 .. Len(ExprOps(expr[1])) |-> nodes'[Len(nodes) + k].op]
                 = ExprOps(expr[1])
          /\ SubSeq(nodes', 1, Len(nodes)) = nodes
          /\ SubSeq(buffer', 1, Len(buffer)) = buffer
          /\ SubSeq(gradients', 1, Len(gradients)) = gradients
          /\ value_ics' = value_ics
          /\ compiled' = Some(IF expr[1].op = "Symbol" THEN expr[1].i
                              ELSE Len(nodes') - 1)]_vars

\* C11 witness: compile has left two equal Neg(x) entries, each lowered on
\* its own, and the Mul of the two as the compiled root.
C11_Witness ==
    /\ call = "compile"
    /\ nodes = <<NodeVar(0), NodeUnary("Neg", 0), NodeUnary("Neg", 0),
                 NodeBinary("Mul", 1, 2)>>
    /\ compiled = Some(3)

\* C12: between two reset() calls the value of each tape index is computed
\* from its operator at most once, whatever forward() and backward() calls are
\* made and however many parents read the index; a known value slot is
\* neither recomputed nor rewritten by forward() or backward(), and forward()
\* on a known root returns the stored value.
C12_ComputedAtMostOnce ==
    [][/\ \A i \in Indices(nodes') : CopiesIn(i, evals') <= 1
       /\ call' \in {"forward", "backward"} =>
              \A i \in Indices(buffer) :
                  At(buffer, i) # None =>
                      /\ At(buffer', i) = At(buffer, i)
                      /\ CopiesIn(i, evals') = CopiesIn(i, evals)
       /\ (call' = "forward" /\ compiled # None /\ At(buffer, compiled[1]) # None) =>
              ret' = At(buffer, compiled[1])]_vars

\* C12 witness: backward() has run on a root Mul(n, n) over a derived node n;
\* n and the root have each been computed once.
C12_Witness ==
    /\ call = "backward"
    /\ panicked = ""
    /\ Len(nodes) = 3
    /\ At(nodes, 2) = NodeBinary("Mul", 1, 1)
    /\ At(nodes, 1).op # "Var"
    /\ compiled = Some(2)
    /\ CopiesIn(1, evals) = 1
    /\ CopiesIn(2, evals) = 1

\* What one backward() leaves on the tape as it is with all gradients zero.
GradientsOnce == backward([Graph EXCEPT !.gradients = [k \in 1 .. Len(@) |-> Rat(0)]])

TimesOnce(k, B) ==
    /\ B.st = "ok"
    /\ \A x \in Range(value_ics) :
           At(gradients, x) = RMul(Rat(k), At(B.g.gradients, x))

\* C13: backward() only adds to the variables' gradient slots: after k
\* backward() calls in a row on one compiled root since the last reset() (or
\* since construction), every variable's gradient is k times its gradient
\* after one backward(); reset() leaves every gradient zero, and the gradient
\* slot of every non-variable index is zero in every state.
C13_BackwardAccumulates ==
    /\ \A i \in DerivedIndices : At(gradients, i) = Rat(0)
    /\ (call = "backward" /\ panicked = "") => TimesOnce(nbwd, GradientsOnce)
    /\ call = "reset" => \A i \in Indices(gradients) : At(gradients, i) = Rat(0)

\* C13 witness: a second backward() in a row on a derived root has left a
\* variable with a nonzero gradient.
C13_Witness ==
    /\ call = "backward"
    /\ panicked = ""
    /\ nbwd = 2
    /\ compiled[1] \in DerivedIndices
    /\ \E x \in Range(value_ics) : At(gradients, x) # Rat(0)

====
